---------------------------- MODULE Spec2Model ----------------------------
(* Component (ipymediator/interface/component.py): the adapter that binds  *)
(* one ipywidgets widget to a Mediator through trait observation.          *)
(*                                                                         *)
(* The widget side (traitlets.HasTraits of traitlets 5 / ipywidgets 8) is  *)
(* modelled at the calls Component makes into it: getattr, has_trait,      *)
(* set_trait, observe, add_traits, on_click.  Mediator.notify is the       *)
(* environment: it is called synchronously and may write through any live  *)
(* Component before it returns.                                            *)
EXTENDS Integers, Sequences, FiniteSets, TLC

\* ------------------------------------------------------------- bounds
MaxOps == 3        \* top-level operations of the host application in one run
MaxReact == 1      \* writes the Mediator makes in reaction, in one operation
SliderMax == 2     \* the IntSlider is built as IntSlider(min=0, max=SliderMax)

\* ------------------------------------------------------------- values
\* Python values, tagged with their type; n is the payload.
PyBool(b) == [ty |-> "bool", n |-> IF b THEN 1 ELSE 0]
PyInt(k) == [ty |-> "int", n |-> k]
PyStr(k) == [ty |-> "str", n |-> k]               \* 0 is "", 1 is "x"
Method == [ty |-> "method", n |-> 0]              \* a bound method object
Absent == [ty |-> "absent", n |-> 0]              \* no such attribute

\* Python's ==: bool is a subclass of int, so True == 1 and False == 0.
PyEq(a, b) ==
    IF a.ty \in {"bool", "int"} /\ b.ty \in {"bool", "int"}
    THEN a.n = b.n
    ELSE a = b

\* ------------------------------------------------------------ widgets
Widgets == {"cb", "btn", "sl"}
Kind(w) == CASE w = "cb" -> "Checkbox"
             [] w = "btn" -> "Button"
             [] OTHER -> "IntSlider"

TraitNames == {"value", "description"}
MethodNames == {"observe"}             \* attributes that are not traits
AttrNames == TraitNames \cup MethodNames \cup {"bogus"}

\* values the host application and the Mediator write
InputValues == {PyBool(FALSE), PyBool(TRUE), PyInt(SliderMax + 1), PyStr(1)}

\* names read and tested for membership: a trait, a method, a missing name
ReadNames == {"value", "observe", "bogus"}

\* names arguments of the multi-read
NamesArgs == { <<"value">>, <<"description", "value">>, <<"value", "bogus">>,
               <<"observe">>, <<>> }

Comps == {"c1", "c2"}

Range(s) == {s[i] : i \in 1..Len(s)}

\* widget.has_trait(name)
HasTrait(tr, w, n) == n \in TraitNames /\ tr[w][n] # Absent

\* getattr(widget, name): a trait's value, else any other attribute of the
\* object (a bound method), else AttributeError.
GetAttr(tr, w, n) ==
    IF HasTrait(tr, w, n) THEN [err |-> "none", val |-> tr[w][n]]
    ELSE IF n \in MethodNames THEN [err |-> "none", val |-> Method]
    ELSE [err |-> "AttributeError", val |-> Absent]

Clamp(k) == IF k < 0 THEN 0 ELSE IF k > SliderMax THEN SliderMax ELSE k

\* The widget's own validation of a value assigned to a trait:
\* Bool (Checkbox.value, the button's synthetic value) takes a bool and the
\* ints 0 and 1; Unicode (description) takes a str; the slider's bounded CInt
\* converts with int() and then caps and floors the value into [min, max].
Validate(w, n, v) ==
    IF n = "description"
    THEN IF v.ty = "str" THEN [err |-> "none", val |-> v]
         ELSE [err |-> "TraitError", val |-> Absent]
    ELSE IF Kind(w) = "IntSlider"
    THEN IF v.ty \in {"bool", "int"}
         THEN [err |-> "none", val |-> PyInt(Clamp(v.n))]
         ELSE [err |-> "TraitError", val |-> Absent]
    ELSE IF v.ty = "bool" \/ (v.ty = "int" /\ v.n \in {0, 1})
         THEN [err |-> "none", val |-> PyBool(v.n = 1)]
         ELSE [err |-> "TraitError", val |-> Absent]

VARIABLES
    trait,      \* trait[w][n]: the value of trait n of widget w, Absent if none
    clicks,     \* clicks[w]: the on_click toggle handlers registered on w
    obs,        \* obs[w][n]: the Components whose observe_handler observes n of w
    comp,       \* comp[c]: the Component built in slot c
    stack,      \* the call stack of the running top-level operation
    op,         \* the last top-level operation and its outcome
    notified,   \* notified[c]: Mediator.notify calls made by Component c
    due,        \* due[c]: changes of an attribute named in c's names, on c's widget
    policy,     \* the Mediator: "free", or "always" reacting with a further change
    nops        \* top-level operations performed

vars == <<trait, clicks, obs, comp, stack, op, notified, due, policy, nops>>

NoRef == [self |-> FALSE, id |-> ""]

NoComp == [st |-> "none", widget |-> "cb", names |-> <<>>, widget_name |-> "",
           notify_self |-> FALSE, ref |-> NoRef]

NoOp == [kind |-> "none", comp |-> "", w |-> "", name |-> "", names |-> <<>>,
         val |-> Absent, err |-> "none", cause |-> "none", tuple |-> FALSE,
         msg |-> <<>>, res |-> <<>>, clob |-> FALSE, nreact |-> 0, fresh |-> FALSE,
         handlers |-> 0,
         pre |-> [c \in Comps |-> 0]]

Init ==
    /\ trait = [w \in Widgets |->
                 [n \in TraitNames |->
                    IF n = "description" THEN PyStr(0)
                    ELSE CASE Kind(w) = "Checkbox" -> PyBool(FALSE)
                           [] Kind(w) = "Button" -> Absent
                           [] OTHER -> PyInt(0)]]
    /\ clicks = [w \in Widgets |-> 0]
    /\ obs = [w \in Widgets |-> [n \in AttrNames |-> <<>>]]
    /\ comp = [c \in Comps |-> NoComp]
    /\ stack = <<>>
    /\ op = NoOp
    /\ notified = [c \in Comps |-> 0]
    /\ due = [c \in Comps |-> 0]
    /\ policy \in {"free", "always"}
    /\ nops = 0

Live(c) == comp[c].st = "live"

\* --------------------------------------------------- Component: reads
\* Component.__getitem__: getattr(self.widget, trait)
Getitem(tr, w, n) == GetAttr(tr, w, n)

\* Component.__contains__: self.widget.has_trait(trait)
Contains(tr, w, n) == HasTrait(tr, w, n)

\* a multi-read that wraps even a single value in a tuple
CallAlwaysTuple(tr, w, names) ==
    IF names = <<>>
    THEN [err |-> "TypeError", tuple |-> FALSE, res |-> <<>>]
    ELSE IF \E i \in 1..Len(names) : GetAttr(tr, w, names[i]).err # "none"
    THEN [err |-> "AttributeError", tuple |-> FALSE, res |-> <<>>]
    ELSE [err |-> "none", tuple |-> TRUE,
          res |-> [i \in 1..Len(names) |-> GetAttr(tr, w, names[i]).val]]

\* Component.__call__: itemgetter(trait, *args)(self).  One name gives the
\* bare value, two or more give a tuple; the first missing attribute raises
\* AttributeError; no name at all is a TypeError (trait is a required
\* positional parameter).
Call(tr, w, names) ==
    IF names = <<>>
    THEN [err |-> "TypeError", tuple |-> FALSE, res |-> <<>>]
    ELSE IF \E i \in 1..Len(names) : Getitem(tr, w, names[i]).err # "none"
    THEN [err |-> "AttributeError", tuple |-> FALSE, res |-> <<>>]
    ELSE [err |-> "none", tuple |-> Len(names) > 1,
          res |-> [i \in 1..Len(names) |-> Getitem(tr, w, names[i]).val]]

\* -------------------------------------------------- Component: writes
\* widget.set_trait(name, value): TraitError when the widget has no such
\* trait or the value fails validation; otherwise the validated value is
\* stored, and observers are told only when it differs from the old one.
SetTrait(tr, w, n, v) ==
    IF ~HasTrait(tr, w, n)
    THEN [err |-> "TraitError", tr |-> tr, changed |-> FALSE, old |-> Absent, new |-> Absent]
    ELSE LET r == Validate(w, n, v) IN
         IF r.err # "none"
         THEN [err |-> r.err, tr |-> tr, changed |-> FALSE, old |-> tr[w][n], new |-> tr[w][n]]
         ELSE [err |-> "none", tr |-> [tr EXCEPT ![w][n] = r.val],
               changed |-> (r.val # tr[w][n]), old |-> tr[w][n], new |-> r.val]

\* a write that validates the value and then does not store it
SetitemNoStore(tr, w, n, v) == [SetTrait(tr, w, n, v) EXCEPT !.tr = tr]

\* Component.__setitem__: self.widget.set_trait(trait, value)
Setitem(tr, w, n, v) == SetTrait(tr, w, n, v)

\* ------------------------------------------------ Component: __new__
\* HasTraits.add_traits(widget, value=Bool(False)) for a Button: the trait
\* exists from now on, reading False until it is first set; a value the
\* widget already stores under that name stays.
AddValueTrait(tr, w) ==
    IF Kind(w) = "Button" /\ tr[w]["value"] = Absent
    THEN [tr EXCEPT ![w]["value"] = PyBool(FALSE)]
    ELSE tr

\* widget.on_click(on_click): every __new__ makes a new closure, so each
\* construction on a Button registers one more handler.
AddClickHandler(ck, w) ==
    IF Kind(w) = "Button" THEN [ck EXCEPT ![w] = ck[w] + 1] ELSE ck

\* on_click(w): w.value = not w.value
OnClick(v) == PyBool(v.n = 0)

\* ----------------------------------------------- Component: __init__
\* a constructor that swallows the failed validation
InitErrorSwallowed(e, names) == [err |-> "none", cause |-> "none", msg |-> <<>>]

\* try: self(*names) except AttributeError as e: raise ValueError(...) from e
InitError(e, names) ==
    IF e = "AttributeError"
    THEN [err |-> "ValueError", cause |-> "AttributeError", msg |-> names]
    ELSE [err |-> e, cause |-> "none", msg |-> <<>>]

\* an observer registered for every trait (names=All) instead of names
ObserveAll(ob, w, c, names) ==
    [ob EXCEPT ![w] = [n \in AttrNames |->
        IF n \in TraitNames /\ c \notin Range(ob[w][n])
        THEN Append(ob[w][n], c) ELSE ob[w][n]]]

\* self.widget.observe(self.observe_handler, names=names)
Observe(ob, w, c, names) ==
    [ob EXCEPT ![w] = [n \in AttrNames |->
        IF n \in Range(names) /\ c \notin Range(ob[w][n])
        THEN Append(ob[w][n], c) ELSE ob[w][n]]]

\* self.widget_name = widget_name or f"{type(widget).__name__}Component"
WidgetName(widget_name, w) ==
    IF widget_name = "" THEN Kind(w) \o "Component" ELSE widget_name

\* the two kinds of reference exchanged
ReferenceSwapped(c, notify_self, name) ==
    [self |-> ~notify_self, id |-> IF notify_self THEN name ELSE c]

\* self.__reference = self if notify_self else self.widget_name
Reference(c, notify_self, name) ==
    [self |-> notify_self, id |-> IF notify_self THEN c ELSE name]

\* (names, notify_self, widget_name) arguments of the constructor; "" stands
\* for widget_name=None.  The first is the default construction.
InitArgs == { << <<"value">>, FALSE, "" >>,
              << <<"value">>, TRUE, "" >>,
              << <<"description", "value">>, FALSE, "named" >>,
              << <<"value", "bogus">>, FALSE, "" >>,
              << <<"observe">>, TRUE, "named" >> }

\* ------------------------------------------------------ the call stack
\* A frame is a call that has not returned: the widget delivering one change
\* to its observers ("dispatch"), Mediator.notify running for a Component
\* ("notify"), or Button.click running its handlers ("click").
DispatchFrame(w, n, old, new, pend) ==
    [kind |-> "dispatch", comp |-> "", w |-> w, name |-> n, old |-> old, new |-> new,
     pend |-> pend, left |-> 0, self |-> FALSE, refid |-> "", reacted |-> FALSE]

NotifyFrame(c, ref, ch) ==
    [kind |-> "notify", comp |-> c, w |-> ch.w, name |-> ch.name, old |-> ch.old,
     new |-> ch.new, pend |-> <<>>, left |-> 0, self |-> ref.self, refid |-> ref.id,
     reacted |-> FALSE]

ClickFrame(w, k) ==
    [kind |-> "click", comp |-> "", w |-> w, name |-> "value", old |-> Absent,
     new |-> Absent, pend |-> <<>>, left |-> k, self |-> FALSE, refid |-> "",
     reacted |-> FALSE]

Top(stk) == stk[Len(stk)]
Pop(stk) == SubSeq(stk, 1, Len(stk) - 1)
Depth(stk) == Cardinality({i \in 1..Len(stk) : stk[i].kind = "notify"})

\* A dispatch with no observer left and a click with no handler left return.
RECURSIVE Unwind(_)
Unwind(stk) ==
    IF stk = <<>> THEN stk
    ELSE IF Top(stk).kind = "dispatch" /\ Top(stk).pend = <<>> THEN Unwind(Pop(stk))
    ELSE IF Top(stk).kind = "click" /\ Top(stk).left = 0 THEN Unwind(Pop(stk))
    ELSE stk

\* a handler with a re-entrancy guard: silent while a notify is running
ObserveHandlerGuarded(c, ch, stk) ==
    IF \E i \in 1..Len(stk) : stk[i].kind = "notify"
    THEN stk
    ELSE Append(stk, NotifyFrame(c, comp[c].ref, ch))

\* Component.observe_handler: self._mediator.notify(self._reference, change)
ObserveHandler(c, ch, stk) ==
    Append(stk, NotifyFrame(c, comp[c].ref, ch))

\* The stack after set_trait returned r for trait n of widget w: a change is
\* delivered to the observers of n, in the order they registered.
AfterSet(stk, r, w, n) ==
    IF r.changed
    THEN Unwind(Append(stk, DispatchFrame(w, n, r.old, r.new, obs[w][n])))
    ELSE Unwind(stk)

\* due[c] counts the changes Component c has to forward
DueAfter(r, w, n) ==
    [c \in Comps |->
        IF r.changed /\ Live(c) /\ comp[c].widget = w /\ n \in Range(comp[c].names)
        THEN due[c] + 1 ELSE due[c]]

\* ------------------------------------------------ top-level operations
Idle == stack = <<>> /\ nops < MaxOps

\* Component(mediator=M, widget=w, widget_name=..., names=..., notify_self=...)
Construct(c, w, names, notify_self, widget_name) ==
    /\ Idle
    /\ comp[c].st = "none"
    /\ c = "c2" => comp["c1"].st # "none"
    /\ LET tr1 == AddValueTrait(trait, w)
           e == InitError(Call(tr1, w, names).err, names)
           name == WidgetName(widget_name, w)
           ref == Reference(c, notify_self, name)
       IN /\ trait' = tr1
          /\ clicks' = AddClickHandler(clicks, w)
          /\ IF e.err = "none"
             THEN /\ obs' = Observe(obs, w, c, names)
                  /\ comp' = [comp EXCEPT ![c] =
                        [st |-> "live", widget |-> w, names |-> names,
                         widget_name |-> name, notify_self |-> notify_self,
                         ref |-> ref]]
             ELSE /\ obs' = obs
                  /\ comp' = [comp EXCEPT ![c] =
                        [st |-> "failed", widget |-> w, names |-> names,
                         widget_name |-> "", notify_self |-> notify_self,
                         ref |-> NoRef]]
          /\ op' = [NoOp EXCEPT !.kind = "construct", !.comp = c, !.w = w,
                       !.names = names, !.err = e.err, !.cause = e.cause,
                       !.msg = e.msg,
                       !.fresh = (trait[w]["value"] = Absent),
                       !.handlers = clicks[w], !.pre = notified]
    /\ nops' = nops + 1
    /\ UNCHANGED <<stack, notified, due, policy>>

\* component[name]
GetitemOp(c, n) ==
    /\ Idle /\ Live(c)
    /\ LET r == Getitem(trait, comp[c].widget, n)
       IN op' = [NoOp EXCEPT !.kind = "getitem", !.comp = c, !.w = comp[c].widget,
                    !.name = n, !.err = r.err, !.res = <<r.val>>, !.pre = notified]
    /\ nops' = nops + 1
    /\ UNCHANGED <<trait, clicks, obs, comp, stack, notified, due, policy>>

\* name in component
ContainsOp(c, n) ==
    /\ Idle /\ Live(c)
    /\ op' = [NoOp EXCEPT !.kind = "contains", !.comp = c, !.w = comp[c].widget,
                 !.name = n, !.res = <<PyBool(Contains(trait, comp[c].widget, n))>>,
                 !.pre = notified]
    /\ nops' = nops + 1
    /\ UNCHANGED <<trait, clicks, obs, comp, stack, notified, due, policy>>

\* component(*names)
CallOp(c, names) ==
    /\ Idle /\ Live(c)
    /\ LET r == Call(trait, comp[c].widget, names)
       IN op' = [NoOp EXCEPT !.kind = "call", !.comp = c, !.w = comp[c].widget,
                    !.names = names, !.err = r.err, !.tuple = r.tuple,
                    !.res = r.res, !.pre = notified]
    /\ nops' = nops + 1
    /\ UNCHANGED <<trait, clicks, obs, comp, stack, notified, due, policy>>

\* component[name] = v
SetitemOp(c, n, v) ==
    /\ Idle /\ Live(c)
    /\ n \notin TraitNames => v = PyBool(TRUE)
    /\ LET w == comp[c].widget
           r == Setitem(trait, w, n, v)
       IN /\ trait' = r.tr
          /\ stack' = AfterSet(stack, r, w, n)
          /\ due' = DueAfter(r, w, n)
          /\ op' = [NoOp EXCEPT !.kind = "setitem", !.comp = c, !.w = w, !.name = n,
                       !.val = v, !.err = r.err, !.pre = notified]
    /\ nops' = nops + 1
    /\ UNCHANGED <<clicks, obs, comp, notified, policy>>

\* widget.name = v, written by the host application directly on the widget
DirectSet(w, n, v) ==
    /\ Idle
    /\ LET r == SetTrait(trait, w, n, v)
       IN /\ r.changed
          /\ trait' = r.tr
          /\ stack' = AfterSet(stack, r, w, n)
          /\ due' = DueAfter(r, w, n)
          /\ op' = [NoOp EXCEPT !.kind = "direct", !.w = w, !.name = n, !.val = v,
                       !.pre = notified]
    /\ nops' = nops + 1
    /\ UNCHANGED <<clicks, obs, comp, notified, policy>>

\* button.click(): the click handlers run one after the other
Click(w) ==
    /\ Idle
    /\ Kind(w) = "Button"
    /\ stack' = Unwind(<<ClickFrame(w, clicks[w])>>)
    /\ op' = [NoOp EXCEPT !.kind = "click", !.w = w, !.name = "value",
                 !.val = trait[w]["value"], !.handlers = clicks[w], !.pre = notified]
    /\ nops' = nops + 1
    /\ UNCHANGED <<trait, clicks, obs, comp, notified, due, policy>>

\* ------------------------------------------- steps inside an operation
\* the next click handler runs: w.value = not w.value
ClickHandler ==
    /\ stack # <<>>
    /\ Top(stack).kind = "click"
    /\ LET f == Top(stack)
           r == SetTrait(trait, f.w, "value", OnClick(trait[f.w]["value"]))
       IN /\ trait' = r.tr
          /\ stack' = AfterSet([stack EXCEPT ![Len(stack)].left = f.left - 1],
                               r, f.w, "value")
          /\ due' = DueAfter(r, f.w, "value")
    /\ UNCHANGED <<clicks, obs, comp, op, notified, policy, nops>>

\* the widget calls the next observer of the change being delivered
CallObserver ==
    /\ stack # <<>>
    /\ Top(stack).kind = "dispatch"
    /\ LET f == Top(stack)
           c == Head(f.pend)
       IN /\ stack' = ObserveHandler(c, f, [stack EXCEPT ![Len(stack)].pend = Tail(f.pend)])
          /\ notified' = [notified EXCEPT ![c] = notified[c] + 1]
    /\ UNCHANGED <<trait, clicks, obs, comp, op, due, policy, nops>>

\* Mediator.notify reacts: it changes an attribute through a Component (the
\* always-reacting Mediator: an observed attribute)
MediatorWrite(c, n, v) ==
    /\ stack # <<>>
    /\ Top(stack).kind = "notify"
    /\ op.nreact < MaxReact
    /\ Live(c)
    /\ LET w == comp[c].widget
           r == Setitem(trait, w, n, v)
       IN /\ r.err = "none" /\ r.changed
          /\ policy = "always" => obs[w][n] # <<>>
          /\ trait' = r.tr
          /\ stack' = AfterSet([stack EXCEPT ![Len(stack)].reacted = TRUE], r, w, n)
          /\ due' = DueAfter(r, w, n)
          /\ op' = [op EXCEPT !.nreact = op.nreact + 1,
                       !.clob = op.clob \/ (r.changed /\ w = op.w /\ n = op.name)]
    /\ UNCHANGED <<clicks, obs, comp, notified, policy, nops>>

\* Mediator.notify returns; an always-reacting Mediator reacts first
MediatorReturn ==
    /\ stack # <<>>
    /\ Top(stack).kind = "notify"
    /\ policy = "always" => Top(stack).reacted
    /\ stack' = Unwind(Pop(stack))
    /\ UNCHANGED <<trait, clicks, obs, comp, op, notified, due, policy, nops>>

Next ==
    \/ \E c \in Comps, w \in Widgets, a \in InitArgs :
          Construct(c, w, a[1], a[2], a[3])
    \/ \E c \in Comps, n \in ReadNames : GetitemOp(c, n)
    \/ \E c \in Comps, n \in ReadNames : ContainsOp(c, n)
    \/ \E c \in Comps, names \in NamesArgs : CallOp(c, names)
    \/ \E c \in Comps, n \in AttrNames, v \in InputValues : SetitemOp(c, n, v)
    \/ \E w \in Widgets, v \in InputValues : DirectSet(w, "value", v)
    \/ \E w \in Widgets : Click(w)
    \/ ClickHandler
    \/ CallObserver
    \/ \E c \in Comps, n \in TraitNames, v \in InputValues : MediatorWrite(c, n, v)
    \/ MediatorReturn

Spec == Init /\ [][Next]_vars

\* ================================================================ claims
Watchers(w, n) ==
    {c \in Comps : Live(c) /\ comp[c].widget = w /\ n \in Range(comp[c].names)}

NotifyFrames == {i \in 1..Len(stack) : stack[i].kind = "notify"}

\* C1: every change of an attribute named in a Component's names is forwarded
\* to Mediator.notify exactly once by that Component (never more calls than
\* changes while an operation runs, exactly as many once it has returned),
\* and every such call carries the Component itself as reference when it was
\* built with notify_self=True, its display name otherwise, together with
\* the change (attribute, old value, new value) the widget is delivering.
C1_NotifyOncePerChange ==
    /\ \A c \in Comps : notified[c] <= due[c]
    /\ stack = <<>> => \A c \in Comps : notified[c] = due[c]
    /\ \A i \in NotifyFrames :
          LET f == stack[i]
              c == f.comp
          IN /\ Live(c)
             /\ f.self = comp[c].notify_self
             /\ f.refid = (IF comp[c].notify_self THEN c ELSE comp[c].widget_name)
             /\ i > 1 /\ stack[i - 1].kind = "dispatch"
             /\ <<f.w, f.name, f.old, f.new>> =
                   <<stack[i - 1].w, stack[i - 1].name, stack[i - 1].old, stack[i - 1].new>>
             /\ f.w = comp[c].widget /\ f.name \in Range(comp[c].names)
             /\ f.old # f.new

\* the spec's example: a default Component over Checkbox(value=False),
\* component["value"] = True, one notify with old=False and new=True
C1_Witness ==
    /\ op.kind = "setitem" /\ op.val = PyBool(TRUE) /\ op.name = "value"
    /\ Len(stack) = 2 /\ Top(stack).kind = "notify"
    /\ LET f == Top(stack)
       IN /\ Kind(f.w) = "Checkbox" /\ f.comp = op.comp
          /\ f.old = PyBool(FALSE) /\ f.new = PyBool(TRUE)
          /\ ~f.self /\ f.refid = "CheckboxComponent"
          /\ notified[f.comp] = 1 /\ due[f.comp] = 1

\* C3: constructing a Component with a name that is no attribute of the
\* widget fails with ValueError carrying the names argument and caused by
\* AttributeError; the failed Component is registered as observer of nothing
\* and never calls Mediator.notify, whatever is mutated afterwards.
C3_BadNamesRejected ==
    /\ (/\ op.kind = "construct"
        /\ \E i \in 1..Len(op.names) :
              /\ op.names[i] \notin MethodNames
              /\ op.names[i] \in TraitNames => trait[op.w][op.names[i]] = Absent)
       => /\ op.err = "ValueError" /\ op.cause = "AttributeError"
          /\ op.msg = op.names
          /\ comp[op.comp].st = "failed"
    /\ \A c \in Comps : comp[c].st = "failed" =>
          /\ notified[c] = 0
          /\ \A w \in Widgets, n \in AttrNames : c \notin Range(obs[w][n])
          /\ \A i \in NotifyFrames : stack[i].comp # c

\* a Component failed on a bad name, and its widget's value was changed later
C3_Witness ==
    /\ comp["c1"].st = "failed" /\ "bogus" \in Range(comp["c1"].names)
    /\ op.kind = "direct" /\ op.w = comp["c1"].widget /\ op.name = "value"
    /\ notified["c1"] = 0

\* C7: a change of a widget attribute is delivered to exactly the live
\* Components on that widget whose names contain the attribute, and a
\* Component calls Mediator.notify only for a change of an attribute in its
\* names on its own widget; a change of any other attribute causes no call.
C7_ObservesExactlyNames ==
    [][/\ \A w \in Widgets, n \in TraitNames :
             (trait[w][n] # Absent /\ trait'[w][n] # trait[w][n]) =>
                IF Watchers(w, n) = {}
                THEN Len(stack') <= Len(stack) /\ notified' = notified
                ELSE /\ Len(stack') = Len(stack) + 1
                     /\ Top(stack').kind = "dispatch"
                     /\ Top(stack').w = w /\ Top(stack').name = n
                     /\ Range(Top(stack').pend) = Watchers(w, n)
                     /\ Len(Top(stack').pend) = Cardinality(Watchers(w, n))
       /\ \A c \in Comps : notified'[c] # notified[c] =>
             /\ notified'[c] = notified[c] + 1
             /\ Top(stack).kind = "dispatch"
             /\ c \in Watchers(Top(stack).w, Top(stack).name)
             /\ Top(stack').kind = "notify" /\ Top(stack').comp = c]_vars

\* a Component observing value only: its widget's description was changed
\* with no call, and its value with one
C7_Witness ==
    /\ Live("c1") /\ comp["c1"].names = <<"value">>
    /\ op.kind = "setitem" /\ op.comp = "c1" /\ op.name = "description"
    /\ op.err = "none" /\ trait[op.w]["description"] = PyStr(1)
    /\ stack = <<>> /\ notified["c1"] = 1

\* the value a successful read of attribute n of widget w returns
Current(w, n) == IF n \in TraitNames THEN trait[w][n] ELSE Method

Readable(w, n) == n \in MethodNames \/ (n \in TraitNames /\ trait[w][n] # Absent)

\* C4 as stated: a multi-read of one or more existing names returns a tuple
\* with one element per name, the i-th being the current value of the i-th
\* name, and construction with one or more names that all exist succeeds.
C4_Original ==
    /\ (/\ op.kind = "call" /\ op.names # <<>>
        /\ \A i \in 1..Len(op.names) : Readable(op.w, op.names[i]))
       => /\ op.err = "none" /\ op.tuple
          /\ Len(op.res) = Len(op.names)
          /\ \A i \in 1..Len(op.names) : op.res[i] = Current(op.w, op.names[i])
    /\ (/\ op.kind = "construct" /\ op.names # <<>>
        /\ \A i \in 1..Len(op.names) : Readable(op.w, op.names[i]))
       => op.err = "none"

\* C4 amended: a multi-read of existing names yields the current value of
\* every name in the order asked; the result is a tuple exactly when two or
\* more names are given and the bare value when one name is given.
\* Construction with a non-empty names whose names all exist succeeds, and a
\* multi-read of those names right after it yields their current values.
C4_MultiRead ==
    /\ (/\ op.kind = "call" /\ op.names # <<>>
        /\ \A i \in 1..Len(op.names) : Readable(op.w, op.names[i]))
       => /\ op.err = "none"
          /\ op.tuple <=> Len(op.names) >= 2
          /\ Len(op.res) = Len(op.names)
          /\ \A i \in 1..Len(op.names) : op.res[i] = Current(op.w, op.names[i])
    /\ (/\ op.kind = "construct" /\ op.names # <<>>
        /\ \A i \in 1..Len(op.names) : Readable(op.w, op.names[i]))
       => /\ op.err = "none" /\ Live(op.comp)
          /\ LET r == Call(trait, op.w, op.names)
             IN /\ r.err = "none"
                /\ r.tuple <=> Len(op.names) >= 2
                /\ \A i \in 1..Len(op.names) : r.res[i] = Current(op.w, op.names[i])

\* a multi-read of two names after one of them was written
C4_Witness ==
    /\ op.kind = "call" /\ op.names = <<"description", "value">>
    /\ op.err = "none" /\ op.tuple
    /\ op.res = <<PyStr(1), trait[op.w]["value"]>>

\* C5 as stated, for a value the widget stores as it is: after a successful
\* component[name] = v, component[name] returns v, whatever the Mediator did
\* in reaction.
C5_Original ==
    (/\ op.kind = "setitem" /\ op.err = "none" /\ stack = <<>>
     /\ PyEq(Validate(op.w, op.name, op.val).val, op.val))
       => /\ Getitem(trait, op.w, op.name).err = "none"
          /\ PyEq(Getitem(trait, op.w, op.name).val, op.val)

\* C5 amended: after a successful component[name] = v during which the
\* Mediator did not change that attribute again, component[name] returns
\* the value the widget stored for v: v itself, except that a slider's value
\* is v capped and floored into [min, max].
C5_RoundTrip ==
    (op.kind = "setitem" /\ op.err = "none" /\ stack = <<>> /\ ~op.clob)
       => LET r == Getitem(trait, op.w, op.name)
          IN /\ r.err = "none"
             /\ IF Kind(op.w) = "IntSlider" /\ op.name = "value"
                THEN r.val = PyInt(IF op.val.n > SliderMax THEN SliderMax
                                   ELSE IF op.val.n < 0 THEN 0 ELSE op.val.n)
                ELSE PyEq(r.val, op.val)

\* True was written to an observed value, the Mediator was notified and
\* reacted on another attribute, and the value reads back True
C5_Witness ==
    /\ op.kind = "setitem" /\ op.err = "none" /\ stack = <<>>
    /\ op.name = "value" /\ op.val = PyBool(TRUE)
    /\ op.nreact > 0 /\ ~op.clob
    /\ notified[op.comp] > op.pre[op.comp]
    /\ Getitem(trait, op.w, "value").val = PyBool(TRUE)

\* C8: Component has no re-entrancy guard.  Every observer call forwards to
\* Mediator.notify on top of whatever is already running; a change the
\* Mediator makes inside notify is delivered at once, nested in the notify
\* that made it, which stays on the stack; and under a Mediator that answers
\* every notification with a further observed change no call in the chain
\* ever returns.
C8_NoReentrancyGuard ==
    [][stack # <<>> =>
        /\ Top(stack).kind = "dispatch" =>
              /\ Len(stack') = Len(stack) + 1
              /\ Top(stack').kind = "notify"
              /\ Top(stack').comp = Head(Top(stack).pend)
              /\ \A i \in 1..(Len(stack) - 1) : stack'[i] = stack[i]
        /\ Top(stack).kind = "notify" =>
              \A w \in Widgets, n \in TraitNames :
                 (trait'[w][n] # trait[w][n] /\ obs[w][n] # <<>>) =>
                    /\ Len(stack') = Len(stack) + 1
                    /\ Top(stack').kind = "dispatch"
                    /\ Top(stack').w = w /\ Top(stack').name = n
                    /\ Top(stack').pend = obs[w][n]
                    /\ stack'[Len(stack)].kind = "notify"
                    /\ \A i \in 1..(Len(stack) - 1) : stack'[i] = stack[i]
        /\ (policy = "always" /\ Depth(stack) > 0) =>
              /\ Len(stack') >= Len(stack)
              /\ Depth(stack') >= Depth(stack)]_vars

\* under the always-reacting Mediator, a notify nested inside a notify
C8_Witness ==
    /\ policy = "always"
    /\ Depth(stack) >= 2
    /\ Top(stack).kind = "notify"
    /\ \E i \in NotifyFrames : stack[i].reacted

\* C2 as stated, for a Button with exactly one Component on it, which
\* observes value, and a Mediator that writes nothing during the click:
\* value is False once the construction has attached it, and a click flips
\* value exactly once and makes the Component call Mediator.notify exactly
\* once.
C2_Original ==
    /\ (op.kind = "construct" /\ op.err = "none" /\ Kind(op.w) = "Button" /\ op.fresh)
       => trait[op.w]["value"] = PyBool(FALSE)
    /\ (/\ op.kind = "click" /\ stack = <<>> /\ op.nreact = 0
        /\ Cardinality({c \in Comps : Live(c) /\ comp[c].widget = op.w}) = 1
        /\ Watchers(op.w, "value") # {})
       => /\ trait[op.w]["value"] = PyBool(op.val.n = 0)
          /\ \A c \in Watchers(op.w, "value") : notified[c] = op.pre[c] + 1

\* C6 as stated: component[name] and component[name] = v on a name the
\* widget does not have both fail with AttributeError.
C6_Original ==
    (op.kind \in {"getitem", "setitem"} /\ ~Readable(op.w, op.name))
       => op.err = "AttributeError"

\* C9 as stated: a construction that fails with the configuration error
\* leaves the widget without a new attribute, click handler or observer.
C9_Original ==
    (op.kind = "construct" /\ op.err = "ValueError")
       => /\ op.fresh => trait[op.w]["value"] = Absent
          /\ clicks[op.w] = op.handlers
          /\ \A n \in AttrNames : op.comp \notin Range(obs[op.w][n])

\* C10 as stated: name in component holds exactly when component[name]
\* succeeds and exactly when component[name] = v succeeds for some v, and
\* every name accepted in names at construction is in the component.
C10_Original ==
    \A c \in Comps : Live(c) =>
       LET w == comp[c].widget
       IN /\ \A n \in AttrNames :
                /\ Contains(trait, w, n) <=> Getitem(trait, w, n).err = "none"
                /\ Contains(trait, w, n) <=>
                      \E v \in InputValues : Setitem(trait, w, n, v).err = "none"
          /\ \A n \in Range(comp[c].names) : Contains(trait, w, n)

=============================================================================
